---------------------------- MODULE Spec2Model ----------------------------
(***************************************************************************)
(* The receiving boundary (Memorial Hospital EMR server): the pending      *)
(* queue and the committed store kept in two JSON files, and the request   *)
(* handlers that read and write them.  Every handler is an async function: *)
(* it runs atomically between two awaits, and other handlers may run       *)
(* while it waits for a file read or write.                                *)
(***************************************************************************)
EXTENDS Naturals, Sequences, FiniteSets, TLC

(* ------------------------------ bounds -------------------------------- *)
NumProcs == 2
MaxReceipts == 2
MaxCommits == 2

Procs == 1..NumProcs

(* --------------------------- JSON payloads ----------------------------- *)
\* A property that is absent from a JSON object reads as undefined.
Undefined == "<undefined>"

\* x || default: undefined and the empty string are falsy.
Truthy(s) == s # Undefined /\ s # ""

\* Mutant: ?? in place of ||, so an empty string is kept.
OrElseNullish(s, dflt) == IF s # Undefined THEN s ELSE dflt

OrElse(s, dflt) == IF Truthy(s) THEN s ELSE dflt

\* A list-valued property: absent, or a list of entries; an entry is null
\* or an object.
NoList == [present |-> FALSE, items |-> <<>>]
ListOf(items) == [present |-> TRUE, items |-> items]

NullEntry == [null |-> TRUE]
IdEntry(v) == [null |-> FALSE, value |-> v]
GivenList(g) == [present |-> TRUE, items |-> g]
NoGiven == [present |-> FALSE, items |-> <<>>]
NameEntry(f, g) == [null |-> FALSE, family |-> f, given |-> g]

\* A JSON number given where a string is expected.
NumberValue == "<number 123>"

IsString(v) == v # NumberValue /\ v # Undefined

IdentifierValues ==
  { NoList, ListOf(<<>>), ListOf(<<NullEntry>>) }
    \cup { ListOf(<<IdEntry(v)>>) : v \in {Undefined, "", "C123", NumberValue} }

GivenValues ==
  { NoGiven, GivenList(<<>>), GivenList(<<"">>), GivenList(<<"Juan">>) }

NameValues ==
  { NoList, ListOf(<<>>), ListOf(<<NullEntry>>) }
    \cup { ListOf(<<NameEntry(f, g)>>) :
             f \in {Undefined, "", "Dela Cruz"}, g \in GivenValues }

BirthDateValues == {Undefined, "", "1980-01-01"}
GenderValues == {Undefined, "", "male"}

\* Every request body of the model: each property missing, empty or filled.
Payloads ==
  [identifier : IdentifierValues, name : NameValues,
   birthDate : BirthDateValues, gender : GenderValues]

\* The translated resource of the end-to-end example, and an empty body.
JuanPayload ==
  [identifier |-> ListOf(<<IdEntry("C123")>>),
   name |-> ListOf(<<NameEntry("Dela Cruz", GivenList(<<"Juan">>))>>),
   birthDate |-> "1980-01-01", gender |-> Undefined]

EmptyPayload ==
  [identifier |-> NoList, name |-> NoList,
   birthDate |-> Undefined, gender |-> Undefined]

SamplePayloads == {JuanPayload, EmptyPayload}

\* A body whose identifier value is a number, with the name of the example.
NumericIdPayload ==
  [JuanPayload EXCEPT !.identifier = ListOf(<<IdEntry(NumberValue)>>)]

\* A second patient, matched by other terms than the first.
MariaPayload ==
  [identifier |-> ListOf(<<IdEntry("c77")>>),
   name |-> ListOf(<<NameEntry("Cruz", GivenList(<<"Maria">>))>>),
   birthDate |-> Undefined, gender |-> "female"]

SearchPayloads == {JuanPayload, EmptyPayload, MariaPayload, NumericIdPayload}

\* The search terms: none, and terms in either case matching the identifier,
\* the full name across the space between its parts, or nothing.
SearchQueries ==
  {"", "Dela Cruz", "dela", "CRUZ", "C7", "c123", "n D", "unknown", "zzz"}

SampleQueries == {"", "Dela Cruz"}

\* Overlapping requests differ by their receipt, not by their body.
OverlapPayloads == {JuanPayload}

(* ----------------------- extractPatientDetails ------------------------- *)
\* Reading a property of a null list entry throws a TypeError.
Throws(fhirData) ==
  \/ /\ fhirData.identifier.present
     /\ Len(fhirData.identifier.items) > 0
     /\ fhirData.identifier.items[1].null
  \/ /\ fhirData.name.present
     /\ Len(fhirData.name.items) > 0
     /\ fhirData.name.items[1].null

ErrorDetails(fhirData) ==
  [patient_id |-> "Error", given_name |-> "Error", family_name |-> "Error",
   full_name |-> "Error processing patient data",
   birth_date |-> "Unknown", gender |-> "Unknown",
   original_fhir |-> fhirData]

PatientIdOf(fhirData) ==
  IF fhirData.identifier.present /\ Len(fhirData.identifier.items) > 0
  THEN OrElse(fhirData.identifier.items[1].value, "Unknown")
  ELSE "Unknown"

\* nameData = name[0], or {} when there is no name list or it is empty.
NameDataOf(fhirData) ==
  IF fhirData.name.present /\ Len(fhirData.name.items) > 0
  THEN fhirData.name.items[1]
  ELSE NameEntry(Undefined, NoGiven)

FamilyNameOf(fhirData) == OrElse(NameDataOf(fhirData).family, "Unknown")

\* givenNames = nameData.given || ["Unknown"] (an empty list is truthy);
\* givenName = givenNames[0] || "Unknown".
GivenNameOf(fhirData) ==
  LET given == NameDataOf(fhirData).given
      givenNames == IF given.present THEN given.items ELSE <<"Unknown">>
  IN  IF Len(givenNames) > 0 THEN OrElse(givenNames[1], "Unknown")
      ELSE "Unknown"

extractPatientDetails(fhirData) ==
  IF Throws(fhirData) THEN ErrorDetails(fhirData)
  ELSE [patient_id |-> PatientIdOf(fhirData),
        given_name |-> GivenNameOf(fhirData),
        family_name |-> FamilyNameOf(fhirData),
        full_name |-> GivenNameOf(fhirData) \o " " \o FamilyNameOf(fhirData),
        birth_date |-> OrElse(fhirData.birthDate, "Unknown"),
        gender |-> OrElse(fhirData.gender, "Unknown"),
        original_fhir |-> fhirData]

\* The record built on receipt; the receipt clock stands for the timestamp.
pendingRecord(fhirData, now) ==
  [details |-> extractPatientDetails(fhirData),
   received_timestamp |-> now,
   status |-> "pending"]

(* ------------------------------- state --------------------------------- *)
VARIABLES
  pendingFile,    \* content of pending_queue.json
  receivedFile,   \* content of received_patients.json
  pc,             \* per handler: the await it is suspended at
  local,          \* per handler: its local variables
  clock,          \* number of receipts started (the timestamp source)
  commits,        \* number of commits started
  acked,          \* timestamps of the records acknowledged with success
  resp,           \* the last response the server has sent
  hist,           \* the last two completed writing requests, oldest first
  tr,             \* the translation service: its request in progress
  clinic          \* the clinic server: its files and its handlers

vars ==
  <<pendingFile, receivedFile, pc, local, clock, commits, acked, resp, hist,
    tr, clinic>>

NoLocal == [body |-> <<>>, rec |-> <<>>, queue |-> <<>>,
            pendingPatients |-> <<>>, receivedPatients |-> <<>>,
            prePending |-> <<>>, preReceived |-> <<>>]

NoResponse == [op |-> "none", code |-> 0, count |-> 0, list |-> <<>>]

\* The translation service before any request.
NoTranslation ==
  [pc |-> "idle", data |-> <<>>, ai_response |-> <<>>,
   tool_name |-> <<>>, arguments |-> <<>>,
   translated_data |-> <<>>, is_valid |-> <<>>, strict |-> <<>>,
   response |-> <<>>, calls |-> <<>>, prev |-> <<>>]

\* The handlers of the clinic server that can be in progress together.
ClinicHandlers == {"h1", "h2"}

\* The local variables of a clinic handler before it starts.
NoClinicLocal ==
  [body |-> <<>>, patients |-> <<>>, newPatient |-> <<>>,
   patientId |-> "", targetFacilityId |-> "", call |-> "",
   sentRecords |-> <<>>, sentRecord |-> <<>>, saves |-> 0]

NoClinicResponse ==
  [op |-> "none", code |-> 0, call |-> "", patientId |-> "", saves |-> 0,
   newPatient |-> <<>>, sentRecord |-> <<>>, patients |-> <<>>,
   sentRecords |-> <<>>]

\* The clinic server after its start: no patients.json, no
\* sent_records.json, no request in progress.
NoClinic ==
  [patientsFile |-> <<>>, sentFile |-> <<>>,
   pc |-> [h \in ClinicHandlers |-> "idle"],
   loc |-> [h \in ClinicHandlers |-> NoClinicLocal],
   adds |-> 0, sends |-> 0,
   created |-> <<>>, sentOk |-> <<>>,
   resp |-> NoClinicResponse]

Init ==
  /\ pendingFile = <<>>
  /\ receivedFile = <<>>
  /\ pc = [p \in Procs |-> "idle"]
  /\ local = [p \in Procs |-> NoLocal]
  /\ clock = 0
  /\ commits = 0
  /\ acked = {}
  /\ resp = NoResponse
  /\ hist = <<>>
  /\ tr = NoTranslation
  /\ clinic = NoClinic

AllIdle == \A p \in Procs : pc[p] = "idle"

\* Keep the last two completed requests.
Logged(entry) ==
  IF Len(hist) < 2 THEN Append(hist, entry) ELSE <<hist[2], entry>>

(* --------------------------- file helpers ------------------------------ *)
\* Mutant: the file is always read as empty.
loadJsonFileEmpty(content, ok) == SubSeq(content, 1, 0)

\* loadJsonFile: the parsed content, or [] when reading or parsing fails.
loadJsonFile(content, ok) == IF ok THEN content ELSE <<>>

\* saveJsonFile: the file's new content; a failed write is swallowed and
\* leaves the file as it was.
saveJsonFile(content, data, ok) == IF ok THEN data ELSE content

(* ------------------------- POST /fhir/patient -------------------------- *)
StartEnqueue(p, fhirData) ==
  /\ pc[p] = "idle"
  /\ clock < MaxReceipts
  /\ clock' = clock + 1
  /\ local' = [local EXCEPT ![p] =
       [NoLocal EXCEPT !.body = <<fhirData>>,
                       !.rec = <<pendingRecord(fhirData, clock + 1)>>,
                       !.prePending = pendingFile,
                       !.preReceived = receivedFile]]
  /\ pc' = [pc EXCEPT ![p] = "enq_load"]
  /\ UNCHANGED <<tr, clinic>>
  /\ UNCHANGED <<pendingFile, receivedFile, commits, acked, resp, hist>>

\* pendingQueue = await loadJsonFile(...); pendingQueue.push(pendingRecord)
EnqueueLoad(p, ok) ==
  /\ pc[p] = "enq_load"
  /\ local' = [local EXCEPT ![p].queue =
       loadJsonFile(pendingFile, ok) \o local[p].rec]
  /\ pc' = [pc EXCEPT ![p] = "enq_save"]
  /\ UNCHANGED <<tr, clinic>>
  /\ UNCHANGED <<pendingFile, receivedFile, clock, commits, acked, resp,
                 hist>>

\* await saveJsonFile(...); res.status(200).json({status: 'success'})
EnqueueSave(p, ok) ==
  /\ pc[p] = "enq_save"
  /\ pendingFile' = saveJsonFile(pendingFile, local[p].queue, ok)
  /\ acked' = acked \cup {local[p].rec[1].received_timestamp}
  /\ resp' =
       [op |-> "enqueue", code |-> 200, count |-> 0, list |-> <<>>]
  /\ hist' = Logged([op |-> "enqueue", code |-> 200, count |-> 0,
                     body |-> local[p].body,
                     rec |-> local[p].rec,
                     prePending |-> local[p].prePending,
                     preReceived |-> local[p].preReceived,
                     postPending |-> pendingFile',
                     postReceived |-> receivedFile])
  /\ pc' = [pc EXCEPT ![p] = "idle"]
  /\ local' = [local EXCEPT ![p] = NoLocal]
  /\ UNCHANGED <<tr, clinic>>
  /\ UNCHANGED <<receivedFile, clock, commits>>

(* ---------------------- POST /api/process-pending ---------------------- *)
\* Mutant: the batch is put in front of the committed records.
MergedInFront(receivedPatients, pendingPatients) ==
  pendingPatients \o receivedPatients

\* receivedPatients.push(...pendingPatients)
Merged(receivedPatients, pendingPatients) ==
  receivedPatients \o pendingPatients

\* Mutant: the commit writes the queue back as it is.
UnclearedQueue == pendingFile

\* The content written to the pending queue by a commit.
ClearedQueue == <<>>

StartCommit(p) ==
  /\ pc[p] = "idle"
  /\ commits < MaxCommits
  /\ commits' = commits + 1
  /\ local' = [local EXCEPT ![p] =
       [NoLocal EXCEPT !.prePending = pendingFile,
                       !.preReceived = receivedFile]]
  /\ pc' = [pc EXCEPT ![p] = "com_loadP"]
  /\ UNCHANGED <<tr, clinic>>
  /\ UNCHANGED <<pendingFile, receivedFile, clock, acked, resp, hist>>

\* pendingPatients = await loadJsonFile(PENDING_QUEUE_FILE)
CommitLoadPending(p, ok) ==
  /\ pc[p] = "com_loadP"
  /\ local' = [local EXCEPT ![p].pendingPatients =
       loadJsonFile(pendingFile, ok)]
  /\ pc' = [pc EXCEPT ![p] = "com_loadR"]
  /\ UNCHANGED <<tr, clinic>>
  /\ UNCHANGED <<pendingFile, receivedFile, clock, commits, acked, resp,
                 hist>>

\* receivedPatients = await loadJsonFile(RECEIVED_PATIENTS_FILE); push
CommitLoadReceived(p, ok) ==
  /\ pc[p] = "com_loadR"
  /\ local' = [local EXCEPT ![p].receivedPatients =
       Merged(loadJsonFile(receivedFile, ok), local[p].pendingPatients)]
  /\ pc' = [pc EXCEPT ![p] = "com_saveR"]
  /\ UNCHANGED <<tr, clinic>>
  /\ UNCHANGED <<pendingFile, receivedFile, clock, commits, acked, resp,
                 hist>>

\* await saveJsonFile(RECEIVED_PATIENTS_FILE, receivedPatients)
CommitSaveReceived(p, ok) ==
  /\ pc[p] = "com_saveR"
  /\ receivedFile' =
       saveJsonFile(receivedFile, local[p].receivedPatients, ok)
  /\ pc' = [pc EXCEPT ![p] = "com_saveP"]
  /\ UNCHANGED <<tr, clinic>>
  /\ UNCHANGED <<pendingFile, local, clock, commits, acked, resp, hist>>

\* await saveJsonFile(PENDING_QUEUE_FILE, []); res.json({success: true, ...})
CommitSavePending(p, ok) ==
  /\ pc[p] = "com_saveP"
  /\ pendingFile' = saveJsonFile(pendingFile, ClearedQueue, ok)
  /\ resp' =
       [op |-> "commit", code |-> 200,
        count |-> Len(local[p].pendingPatients), list |-> <<>>]
  /\ hist' = Logged([op |-> "commit", code |-> 200,
                     count |-> Len(local[p].pendingPatients),
                     body |-> <<>>,
                     rec |-> <<>>,
                     prePending |-> local[p].prePending,
                     preReceived |-> local[p].preReceived,
                     postPending |-> pendingFile',
                     postReceived |-> receivedFile])
  /\ pc' = [pc EXCEPT ![p] = "idle"]
  /\ local' = [local EXCEPT ![p] = NoLocal]
  /\ UNCHANGED <<tr, clinic>>
  /\ UNCHANGED <<receivedFile, clock, commits, acked>>

(* ------------------ GET /api/patients, GET /api/pending ---------------- *)
ListCommitted(p, ok) ==
  /\ pc[p] = "idle"
  /\ resp' =
       [op |-> "patients", code |-> 200, count |-> 0,
        list |-> loadJsonFile(receivedFile, ok)]
  /\ UNCHANGED <<tr, clinic>>
  /\ UNCHANGED <<pendingFile, receivedFile, pc, local, clock, commits,
                 acked, hist>>

ListPending(p, ok) ==
  /\ pc[p] = "idle"
  /\ resp' =
       [op |-> "pending", code |-> 200, count |-> 0,
        list |-> loadJsonFile(pendingFile, ok)]
  /\ UNCHANGED <<tr, clinic>>
  /\ UNCHANGED <<pendingFile, receivedFile, pc, local, clock, commits,
                 acked, hist>>

(* --------------------------- GET /api/search --------------------------- *)
UpperChars == "ABCDEFGHIJKLMNOPQRSTUVWXYZ"
LowerChars == "abcdefghijklmnopqrstuvwxyz"

LowerTable ==
  [c \in { SubSeq(UpperChars, i, i) : i \in 1..Len(UpperChars) } |->
     LET i == CHOOSE i \in 1..Len(UpperChars) : SubSeq(UpperChars, i, i) = c
     IN  SubSeq(LowerChars, i, i)]

LowerChar(c) == IF c \in DOMAIN LowerTable THEN LowerTable[c] ELSE c

RECURSIVE toLowerCase(_)
toLowerCase(str) ==
  IF str = "" THEN ""
  ELSE LowerChar(SubSeq(str, 1, 1)) \o toLowerCase(SubSeq(str, 2, Len(str)))

\* String.prototype.includes
includes(str, searchString) ==
  \E i \in 1..(Len(str) + 1) :
    /\ i + Len(searchString) <= Len(str) + 1
    /\ SubSeq(str, i, i + Len(searchString) - 1) = searchString

\* Mutant: the stored fields are compared without lowering their case.
SearchMatchesCaseSensitive(patient, searchTerm) ==
  \/ includes(patient.details.patient_id, searchTerm)
  \/ includes(patient.details.full_name, searchTerm)

\* The filter callback of the search.
SearchMatches(patient, searchTerm) ==
  \/ includes(toLowerCase(patient.details.patient_id), searchTerm)
  \/ includes(toLowerCase(patient.details.full_name), searchTerm)

\* patient_id.toLowerCase is not a function when patient_id is no string:
\* the filter throws on the first such record.
SearchThrows(patients) ==
  \E i \in DOMAIN patients : ~IsString(patients[i].details.patient_id)

\* The response; committed and pending are the stores as they are when the
\* search runs.
SearchResponse(query, patients) ==
  IF query = ""
  THEN [op |-> "search", code |-> 200, count |-> 0, list |-> <<>>,
        query |-> query, committed |-> receivedFile, pending |-> pendingFile]
  ELSE IF SearchThrows(patients)
  THEN [op |-> "search", code |-> 500, count |-> 0, list |-> <<>>,
        query |-> query, committed |-> receivedFile, pending |-> pendingFile]
  ELSE [op |-> "search", code |-> 200, count |-> 0,
        list |-> SelectSeq(patients,
                   LAMBDA patient : SearchMatches(patient, toLowerCase(query))),
        query |-> query, committed |-> receivedFile, pending |-> pendingFile]

Search(p, query, ok) ==
  /\ pc[p] = "idle"
  /\ resp' =
       SearchResponse(query, loadJsonFile(receivedFile, ok))
  /\ UNCHANGED <<tr, clinic>>
  /\ UNCHANGED <<pendingFile, receivedFile, pc, local, clock, commits,
                 acked, hist>>

(* ------------------- translation service: the values ------------------- *)
\* A key that the dict does not have, JSON null, and a JSON number.
Missing == "<missing>"
None == "<None>"
IntDob == "<int 19800101>"

PyIsStr(v) == v \notin {Missing, None, IntDob}

\* dict.get(key): None when the key is missing.
Get(value) == IF value = Missing THEN None ELSE value

\* Mutant: the slice takes the character at b too.
PySliceInclusive(str, a, b) ==
  LET last == IF b + 1 < Len(str) THEN b + 1 ELSE Len(str)
  IN  IF a >= last THEN "" ELSE SubSeq(str, a + 1, last)

\* str[a:b]: a slice never raises; it stops at the end of the string.
PySlice(str, a, b) ==
  LET last == IF b < Len(str) THEN b ELSE Len(str)
  IN  IF a >= last THEN "" ELSE SubSeq(str, a + 1, last)

DateOfBirthValues ==
  {Missing, None, IntDob, "", "1980", "19800101", "20251231", "198001011",
   "1980-01-01", "1980-1-1"}

\* request.data: every source payload of the model.
Hl7Payloads ==
  [patientId : {Missing, "C123"}, firstName : {Missing, "Juan"},
   lastName : {Missing, "", "Dela Cruz"}, dateOfBirth : DateOfBirthValues]

\* The request body of the end-to-end example.
\* The payloads of a repeated request: the example, one without a date of
\* birth, one with a short date and one without a family name.
RepeatPayloads ==
  { [patientId |-> "C123", firstName |-> "Juan", lastName |-> l,
     dateOfBirth |-> d] :
      l \in {Missing, "Dela Cruz"}, d \in {Missing, "1980", "19800101"} }

JuanHl7 ==
  [patientId |-> "C123", firstName |-> "Juan", lastName |-> "Dela Cruz",
   dateOfBirth |-> "19800101"]

(* ----------------------- convert_hl7_to_fhir --------------------------- *)
FhirIdentifier(v) == [system |-> "urn:clinic:patient-id", value |-> v]
FhirName(f, g) == [null |-> FALSE, family |-> f, given |-> g]

\* The date format conversion: three slices joined by hyphens.
\* Mutant: the date of birth is copied as it is.
BirthDateCopied(dob) == PySlice(dob, 0, Len(dob))

BirthDateOf(dob) ==
  PySlice(dob, 0, 4) \o "-" \o PySlice(dob, 4, 6) \o "-" \o PySlice(dob, 6, 8)

fhir_patient(hl7_data) ==
  [dict |-> TRUE,
   resourceType |-> "Patient",
   identifier |-> ListOf(<<FhirIdentifier(Get(hl7_data.patientId))>>),
   name |-> ListOf(<<FhirName(Get(hl7_data.lastName),
                              <<Get(hl7_data.firstName)>>)>>),
   birthDate |-> BirthDateOf(hl7_data.dateOfBirth)]

\* What a call of the routine does: return the resource, raise ValueError
\* (from the KeyError of a missing dateOfBirth), or let the TypeError of
\* slicing a value that is no string pass through.
convert_hl7_to_fhir(hl7_data) ==
  IF hl7_data.dateOfBirth = Missing
  THEN [raised |-> "ValueError", field |-> "dateOfBirth", value |-> <<>>]
  ELSE IF ~PyIsStr(hl7_data.dateOfBirth)
  THEN [raised |-> "TypeError", field |-> "", value |-> <<>>]
  ELSE [raised |-> "none", field |-> "", value |-> <<fhir_patient(hl7_data)>>]

\* The clinic's display helper: the same slices, for strings of length 8
\* only; anything else is returned as it is.
formatDateOfBirth(dob) ==
  IF PyIsStr(dob) /\ Len(dob) = 8
  THEN PySlice(dob, 0, 4) \o "-" \o PySlice(dob, 4, 6) \o "-"
         \o PySlice(dob, 6, 8)
  ELSE dob

(* ---------------------- get_ai_translation_instruction ----------------- *)
AVAILABLE_TOOLS == {"convert_hl7_to_fhir"}

ToolNames == {"convert_hl7_to_fhir", "convert_cda_to_fhir", ""}

\* The arguments the decision carries: none, the data echoed, other data,
\* or text that is no JSON.
ArgumentValues == {Missing, "echo", "other", "garbled"}

\* How the decision call ends: the request fails on the network or times
\* out, raise_for_status raises, the reply lacks choices[0].message.
\* tool_calls[0].function.name at some level, or it names a tool.
DecisionFailures ==
  { [kind |-> k, name |-> "", arguments |-> Missing] :
      k \in {"network", "timeout", "status", "no_tool_calls",
             "empty_tool_calls", "no_function_name"} }

DecisionReplies ==
  { [kind |-> "tool_call", name |-> n, arguments |-> a] :
      n \in ToolNames, a \in ArgumentValues }

\* Mutant: the decision call has no timeout and neither replies nor fails.
DecisionNeverEnds == {}

DecisionOutcomes == DecisionFailures \cup DecisionReplies

\* Mutant: only a failed transport raises; a reply without the tool call
\* goes on with an empty tool name.
DecisionRaisesOnTransport(outcome) ==
  outcome.kind \in {"network", "timeout", "status"}

\* The try block of step 1 raises: the post fails or times out,
\* raise_for_status raises, or the tool call is not in the reply.
DecisionRaises(outcome) == outcome.kind # "tool_call"

\* Mutant: a name that is not registered falls back on the routine.
InRegistryOrDefault(tool_name) == tool_name = tool_name

\* tool_name in AVAILABLE_TOOLS
InRegistry(tool_name) == tool_name \in AVAILABLE_TOOLS

(* ------------------------------ responses ------------------------------ *)
ErrorResponse(code, detail, field) ==
  [status_code |-> code, status |-> "error", detail |-> detail,
   field |-> field, translated_data |-> <<>>]

SuccessResponse(translated_data) ==
  [status_code |-> 200, status |-> "success", detail |-> "", field |-> "",
   translated_data |-> <<translated_data>>]

(* ------------------------- validate_fhir_patient ----------------------- *)
Digits == {"0", "1", "2", "3", "4", "5", "6", "7", "8", "9"}

IsDigits(str) == \A i \in 1..Len(str) : SubSeq(str, i, i) \in Digits

\* A FHIR date: YYYY-MM-DD.
IsFhirDate(v) ==
  /\ PyIsStr(v)
  /\ Len(v) = Len("YYYY-MM-DD")
  /\ IsDigits(SubSeq(v, 1, 4)) /\ SubSeq(v, 5, 5) = "-"
  /\ IsDigits(SubSeq(v, 6, 7)) /\ SubSeq(v, 8, 8) = "-"
  /\ IsDigits(SubSeq(v, 9, 10))

FilledString(v) == PyIsStr(v) /\ v # ""

\* What a library that checks the structure on creation lets through: a
\* resource type, and no null, empty or ill-formed element.
StructurallyValid(fhir_data) ==
  /\ fhir_data.resourceType # Missing
  /\ \A i \in DOMAIN fhir_data.identifier.items :
       FilledString(fhir_data.identifier.items[i].value)
  /\ \A i \in DOMAIN fhir_data.name.items :
       /\ ~fhir_data.name.items[i].null
       /\ FilledString(fhir_data.name.items[i].family)
       /\ \A j \in DOMAIN fhir_data.name.items[i].given :
            FilledString(fhir_data.name.items[i].given[j])
  /\ fhir_data.birthDate # Missing => IsFhirDate(fhir_data.birthDate)

\* The exception raised inside the try block, or "none".  strict: whether
\* Resource.from_data checks the structure of a dict or takes it as it is.
ValidateTry(fhir_data, strict) ==
  IF ~fhir_data.dict THEN "TypeError"
  ELSE IF strict /\ ~StructurallyValid(fhir_data) THEN "ValidationError"
  ELSE IF fhir_data.resourceType # "Patient" THEN "AssertionError"
  ELSE IF ~fhir_data.name.present THEN "AttributeError"
  ELSE IF Len(fhir_data.name.items) = 0 THEN "IndexError"
  ELSE IF fhir_data.name.items[1].null THEN "AttributeError"
  ELSE IF fhir_data.name.items[1].family = Missing THEN "AttributeError"
  ELSE IF fhir_data.name.items[1].family = None THEN "AssertionError"
  ELSE "none"

\* Mutant: only the failed assertions are caught.
CaughtAssertionOnly(exc) == exc = "AssertionError"

\* except Exception: every exception of the try block is caught.
Caught(exc) ==
  exc \in {"TypeError", "ValidationError", "AssertionError",
           "AttributeError", "IndexError"}

validate_fhir_patient(fhir_data, strict) ==
  LET exc == ValidateTry(fhir_data, strict)
  IN  IF exc = "none" THEN [raised |-> "none", value |-> TRUE]
      ELSE IF Caught(exc) THEN [raised |-> "none", value |-> FALSE]
      ELSE [raised |-> exc, value |-> FALSE]

\* The values given to the validator when it is called on its own: a value
\* that is no dict, and dicts with each part missing, empty or filled.
NotADict == [dict |-> FALSE]

ValidatorInputs ==
  {NotADict} \cup
  [dict : {TRUE},
   resourceType : {Missing, "Patient", "Observation"},
   identifier : {NoList, ListOf(<<>>), ListOf(<<FhirIdentifier("C123")>>)},
   name : {NoList, ListOf(<<>>), ListOf(<<NullEntry>>)}
            \cup { ListOf(<<FhirName(f, <<"Juan">>)>>) :
                     f \in {Missing, None, "", "Dela Cruz"} },
   birthDate : {Missing, "1980-01-01"}]

\* A direct call of the validator.
CallValidate(fhir_data, strict) ==
  /\ tr' = [NoTranslation EXCEPT
              !.pc = "called",
              !.translated_data = <<fhir_data>>,
              !.strict = <<strict>>,
              !.is_valid = <<validate_fhir_patient(fhir_data, strict)>>,
              !.calls = <<"validate">>]
  /\ UNCHANGED <<pendingFile, receivedFile, pc, local, clock, commits,
                 acked, resp, hist, clinic>>

(* -------------------------- POST /api/translate ------------------------ *)
\* What is remembered of an answered request.
Answered ==
  [data |-> tr.data, tool_name |-> tr.tool_name, arguments |-> tr.arguments,
   strict |-> tr.strict, translated_data |-> tr.translated_data,
   response |-> tr.response]

\* A request arrives; keep: the request answered before it is remembered.
TranslateReceive(data, keep) ==
  /\ tr.pc \in {"idle", "done"}
  /\ tr' = [NoTranslation EXCEPT
              !.pc = "deciding",
              !.data = <<data>>,
              !.prev = IF keep /\ tr.pc = "done" THEN <<Answered>> ELSE <<>>]
  /\ UNCHANGED <<pendingFile, receivedFile, pc, local, clock, commits,
                 acked, resp, hist, clinic>>

\* 1. The decision call and the extraction of the tool name; every
\* exception becomes HTTPException(500, "AI service error").
TranslateDecide(outcome) ==
  /\ tr.pc = "deciding"
  /\ tr' = IF DecisionRaises(outcome)
           THEN [tr EXCEPT !.pc = "done",
                           !.ai_response = <<outcome>>,
                           !.calls = Append(tr.calls, "decide"),
                           !.response =
                             <<ErrorResponse(500, "AI service error",
                                             outcome.kind)>>]
           ELSE [tr EXCEPT !.pc = "resolving",
                           !.ai_response = <<outcome>>,
                           !.calls = Append(tr.calls, "decide"),
                           !.tool_name = <<outcome.name>>,
                           !.arguments = <<outcome.arguments>>]
  /\ UNCHANGED <<pendingFile, receivedFile, pc, local, clock, commits,
                 acked, resp, hist, clinic>>

\* 2. if tool_name in AVAILABLE_TOOLS ... else HTTPException(400)
TranslateResolve ==
  /\ tr.pc = "resolving"
  /\ tr' = IF InRegistry(tr.tool_name[1])
           THEN [tr EXCEPT !.pc = "executing",
                           !.calls = Append(tr.calls, "resolve")]
           ELSE [tr EXCEPT !.pc = "done",
                           !.calls = Append(tr.calls, "resolve"),
                           !.response =
                             <<ErrorResponse(400, "Unknown tool requested by AI",
                                             tr.tool_name[1])>>]
  /\ UNCHANGED <<pendingFile, receivedFile, pc, local, clock, commits,
                 acked, resp, hist, clinic>>

\* Mutant: the routine is given the payload only when the arguments of the
\* decision echo it, and an empty payload otherwise.
RoutineInputFromArguments(request_data, arguments) ==
  IF arguments = "echo"
  THEN request_data
  ELSE [patientId |-> Missing, firstName |-> Missing, lastName |-> Missing,
        dateOfBirth |-> Missing]

\* function_to_call(request.data): the arguments of the tool call are not
\* parsed.
RoutineInput(request_data, arguments) == request_data

\* translated_data = function_to_call(request.data); a ValueError becomes
\* HTTPException(400); any other exception is not handled and the
\* framework answers 500.
TranslateExecute ==
  /\ tr.pc = "executing"
  /\ LET out == convert_hl7_to_fhir(RoutineInput(tr.data[1], tr.arguments[1]))
     IN  tr' = IF out.raised = "ValueError"
               THEN [tr EXCEPT !.pc = "done",
                               !.calls = Append(tr.calls, "execute"),
                               !.response =
                                 <<ErrorResponse(400, "Translation error",
                                                 out.field)>>]
               ELSE IF out.raised # "none"
               THEN [tr EXCEPT !.pc = "done",
                               !.calls = Append(tr.calls, "execute"),
                               !.response =
                                 <<ErrorResponse(500, "Internal Server Error",
                                                 "")>>]
               ELSE [tr EXCEPT !.pc = "validating",
                               !.calls = Append(tr.calls, "execute"),
                               !.translated_data = out.value]
  /\ UNCHANGED <<pendingFile, receivedFile, pc, local, clock, commits,
                 acked, resp, hist, clinic>>

\* Mutant: a rejected result goes on to the response.
NotValidIgnored(is_valid) == is_valid # is_valid

\* if not is_valid: raise HTTPException(500)
NotValid(is_valid) == ~is_valid

\* 3. is_valid = validate_fhir_patient(translated_data)
TranslateValidate(strict) ==
  /\ tr.pc = "validating"
  /\ LET out == validate_fhir_patient(tr.translated_data[1], strict)
     IN  tr' = IF out.raised # "none"
               THEN [tr EXCEPT !.pc = "done",
                               !.calls = Append(tr.calls, "validate"),
                               !.strict = <<strict>>,
                               !.is_valid = <<out>>,
                               !.response =
                                 <<ErrorResponse(500, "Internal Server Error",
                                                 "")>>]
               ELSE IF NotValid(out.value)
               THEN [tr EXCEPT !.pc = "done",
                               !.calls = Append(tr.calls, "validate"),
                               !.strict = <<strict>>,
                               !.is_valid = <<out>>,
                               !.response =
                                 <<ErrorResponse(500, "Validation Failed", "")>>]
               ELSE [tr EXCEPT !.pc = "responding",
                               !.calls = Append(tr.calls, "validate"),
                               !.strict = <<strict>>,
                               !.is_valid = <<out>>]
  /\ UNCHANGED <<pendingFile, receivedFile, pc, local, clock, commits,
                 acked, resp, hist, clinic>>

\* return TranslationResponse(status="success", ...)
TranslateRespond ==
  /\ tr.pc = "responding"
  /\ tr' = [tr EXCEPT !.pc = "done",
                      !.calls = Append(tr.calls, "respond"),
                      !.response = <<SuccessResponse(tr.translated_data[1])>>]
  /\ UNCHANGED <<pendingFile, receivedFile, pc, local, clock, commits,
                 acked, resp, hist, clinic>>

(* --------------------------- clinic server ----------------------------- *)
MaxAdds == 2
MaxSends == 2

DigitChars == "0123456789"

IsDigitChar(ch) == \E d \in 1..Len(DigitChars) : SubSeq(DigitChars, d, d) = ch

DigitValue(ch) ==
  CHOOSE d \in 0..9 : SubSeq(DigitChars, d + 1, d + 1) = ch

\* String(n): the decimal digits of n.
RECURSIVE String(_)
String(n) ==
  IF n < 10
  THEN SubSeq(DigitChars, n + 1, n + 1)
  ELSE String(n \div 10) \o SubSeq(DigitChars, (n % 10) + 1, (n % 10) + 1)

\* str.padStart(targetLength, padString), for a one-character padString.
RECURSIVE padStart(_, _, _)
padStart(str, targetLength, padString) ==
  IF Len(str) >= targetLength
  THEN str
  ELSE padStart(padString \o str, targetLength, padString)

\* str.replace(ch, ''): the first occurrence of ch is taken out.
RECURSIVE replaceFirst(_, _)
replaceFirst(str, ch) ==
  IF str = "" THEN ""
  ELSE IF SubSeq(str, 1, 1) = ch THEN SubSeq(str, 2, Len(str))
  ELSE SubSeq(str, 1, 1) \o replaceFirst(SubSeq(str, 2, Len(str)), ch)

RECURSIVE ParseDigits(_, _)
ParseDigits(str, acc) ==
  IF str = "" \/ ~IsDigitChar(SubSeq(str, 1, 1))
  THEN acc
  ELSE ParseDigits(SubSeq(str, 2, Len(str)),
                   acc * 10 + DigitValue(SubSeq(str, 1, 1)))

\* parseInt(str, 10): the leading digits, or NaN when there is none.
parseInt(str) ==
  IF str = "" \/ ~IsDigitChar(SubSeq(str, 1, 1))
  THEN [isNaN |-> TRUE, value |-> 0]
  ELSE [isNaN |-> FALSE, value |-> ParseDigits(str, 0)]

\* The loop over the patients: the largest numeric id, 0 when there is none.
LastId(patients) ==
  LET nums == { parseInt(replaceFirst(patients[i].patientId, "C")) :
                  i \in DOMAIN patients }
      vals == { n.value : n \in { x \in nums : ~x.isNaN } } \cup {0}
  IN  CHOOSE v \in vals : \A w \in vals : w <= v

\* Mutant: the new id is the number of patients plus one.
NewIdByCount(patients) ==
  "C" \o padStart(String(Len(patients) + 1), 3, "0")

\* newId = `C${String(lastId + 1).padStart(3, '0')}`
NewId(patients) == "C" \o padStart(String(LastId(patients) + 1), 3, "0")

\* The bodies of POST /api/patients: two patients, and one without gender.
ClinicBodies ==
  { [firstName |-> "Juan", lastName |-> "Dela Cruz", gender |-> "Male"],
    [firstName |-> "Maria", lastName |-> "Cruz", gender |-> "female"],
    [firstName |-> "Ana", lastName |-> "Reyes", gender |-> Undefined] }

newPatient(patients, body) ==
  [patientId |-> NewId(patients),
   firstName |-> body.firstName,
   lastName |-> body.lastName,
   gender |-> toLowerCase(body.gender),
   sent_to_hospital |-> FALSE]

\* loadJsonFile of the clinic: the parsed content; the default [] when the
\* file is missing (it is then created with []) or cannot be read or parsed.
clinicLoadJsonFile(content, ok) == IF ok THEN content ELSE <<>>

\* saveJsonFile of the clinic: writes and returns true, or returns false
\* and leaves the file as it was.
clinicSaveJsonFile(content, data, ok) == IF ok THEN data ELSE content

ClinicRespond(h, response) ==
  [clinic EXCEPT !.pc[h] = "idle", !.loc[h] = NoClinicLocal,
                 !.resp = response]

HospitalUnchanged ==
  UNCHANGED <<pendingFile, receivedFile, pc, local, clock, commits, acked,
              resp, hist, tr>>

(* --------------------------- POST /api/patients ------------------------ *)
AddStart(h, body) ==
  /\ clinic.pc[h] = "idle"
  /\ clinic.adds < MaxAdds
  /\ clinic' = [clinic EXCEPT
                  !.adds = clinic.adds + 1,
                  !.pc[h] = "add_load",
                  !.loc[h] = [NoClinicLocal EXCEPT !.body = <<body>>]]
  /\ HospitalUnchanged

\* patients = await loadJsonFile(PATIENTS_FILE); the new id; the new
\* patient (gender.toLowerCase() throws without a gender); push.
AddLoad(h, ok) ==
  /\ clinic.pc[h] = "add_load"
  /\ LET patients == clinicLoadJsonFile(clinic.patientsFile, ok)
         body == clinic.loc[h].body[1]
     IN  clinic' =
           IF ~IsString(body.gender)
           THEN ClinicRespond(h, [NoClinicResponse EXCEPT
                                    !.op = "add", !.code = 500])
           ELSE [clinic EXCEPT
                   !.pc[h] = "add_save",
                   !.loc[h].newPatient = <<newPatient(patients, body)>>,
                   !.loc[h].patients =
                     Append(patients, newPatient(patients, body))]
  /\ HospitalUnchanged

\* success = await saveJsonFile(PATIENTS_FILE, patients); 201 or 500
AddSave(h, ok) ==
  /\ clinic.pc[h] = "add_save"
  /\ clinic' =
       [ClinicRespond(h, [NoClinicResponse EXCEPT
                            !.op = "add",
                            !.code = IF ok THEN 201 ELSE 500,
                            !.saves = 1,
                            !.newPatient = clinic.loc[h].newPatient,
                            !.patients = clinic.loc[h].patients])
          EXCEPT
            !.patientsFile =
              clinicSaveJsonFile(clinic.patientsFile,
                                 clinic.loc[h].patients, ok),
            !.created = IF ok
                        THEN Append(clinic.created,
                                    clinic.loc[h].newPatient[1])
                        ELSE clinic.created]
  /\ HospitalUnchanged

(* -------------------------- POST /api/send-record ---------------------- *)
\* The facilities of the registry (or of its local copy).
FacilityIds == {"memorial_hospital", "city_medical_center"}

SendPatientIds == {Undefined, "C001", "C002", "C009"}

SendFacilityIds == {Undefined, "memorial_hospital", "unknown_facility"}

\* How axios.post ends: it throws (nobody listens, the 2 second timeout, a
\* reply that is not 2xx), or a 2xx reply comes with a body whose status is
\* success, with one whose status is something else, or with no body.
CallThrows == {"unreachable", "timeout", "non_2xx"}

CallOutcomes == CallThrows \cup {"success", "error_status", "no_body"}

\* Mutant: a call that throws is answered with the error.
ResponseStatusStrict(outcome) ==
  IF outcome = "success" THEN "success" ELSE "error"

\* responseData.status: the reply's status, or that of the simulated reply
\* when the call threw.
ResponseStatus(outcome) ==
  IF outcome \in CallThrows THEN "success"
  ELSE IF outcome = "success" THEN "success"
  ELSE "error"

\* patients.find(p => p.patientId === patientId): the index, 0 for none.
FindPatient(patients, patientId) ==
  LET hits == { i \in DOMAIN patients : patients[i].patientId = patientId }
  IN  IF hits = {} THEN 0 ELSE CHOOSE i \in hits : \A k \in hits : i <= k

SendStart(h, patientId, targetFacilityId) ==
  /\ clinic.pc[h] = "idle"
  /\ clinic.sends < MaxSends
  /\ clinic' =
       IF ~Truthy(patientId) \/ ~Truthy(targetFacilityId)
       THEN [ClinicRespond(h, [NoClinicResponse EXCEPT
                                 !.op = "send", !.code = 400])
               EXCEPT !.sends = clinic.sends + 1]
       ELSE [clinic EXCEPT
               !.sends = clinic.sends + 1,
               !.pc[h] = "send_loadP",
               !.loc[h] = [NoClinicLocal EXCEPT
                             !.patientId = patientId,
                             !.targetFacilityId = targetFacilityId]]
  /\ HospitalUnchanged

\* patients = await loadJsonFile(PATIENTS_FILE)
SendLoadPatients(h, ok) ==
  /\ clinic.pc[h] = "send_loadP"
  /\ clinic' = [clinic EXCEPT
                  !.pc[h] = "send_loadF",
                  !.loc[h].patients =
                    clinicLoadJsonFile(clinic.patientsFile, ok)]
  /\ HospitalUnchanged

\* facilities = await loadJsonFile(REGISTRY_FILE, []) (and the local copy);
\* the two finds; 404 without the patient or without the facility.
SendLoadFacilities(h, ok) ==
  /\ clinic.pc[h] = "send_loadF"
  /\ LET l == clinic.loc[h]
         facilities == IF ok THEN FacilityIds ELSE {}
     IN  clinic' =
           IF \/ FindPatient(l.patients, l.patientId) = 0
              \/ l.targetFacilityId \notin facilities
           THEN ClinicRespond(h, [NoClinicResponse EXCEPT
                                    !.op = "send", !.code = 404,
                                    !.patientId = l.patientId])
           ELSE [clinic EXCEPT !.pc[h] = "send_call"]
  /\ HospitalUnchanged

\* await axios.post(INTEROP_API_URL, payload, {timeout: 2000}); on success
\* patient.sent_to_hospital = true.  A 2xx reply with no body makes
\* responseData.status throw, which the inner catch answers with 500.
SendCall(h, outcome) ==
  /\ clinic.pc[h] = "send_call"
  /\ LET l == clinic.loc[h]
         i == FindPatient(l.patients, l.patientId)
     IN  clinic' =
           IF outcome = "no_body" \/ ResponseStatus(outcome) # "success"
           THEN ClinicRespond(h, [NoClinicResponse EXCEPT
                                    !.op = "send", !.code = 500,
                                    !.call = outcome,
                                    !.patientId = l.patientId])
           ELSE [clinic EXCEPT
                   !.pc[h] = "send_saveP",
                   !.loc[h].call = outcome,
                   !.loc[h].patients =
                     [l.patients EXCEPT ![i].sent_to_hospital = TRUE]]
  /\ HospitalUnchanged

\* await saveJsonFile(PATIENTS_FILE, patients)
SendSavePatients(h, ok) ==
  /\ clinic.pc[h] = "send_saveP"
  /\ clinic' = [clinic EXCEPT
                  !.pc[h] = "send_loadS",
                  !.loc[h].saves = 1,
                  !.patientsFile =
                    clinicSaveJsonFile(clinic.patientsFile,
                                       clinic.loc[h].patients, ok)]
  /\ HospitalUnchanged

sentRecordOf(patient, targetFacilityId, now) ==
  [patientId |-> patient.patientId,
   patientName |-> patient.firstName \o " " \o patient.lastName,
   sent_to |-> targetFacilityId,
   sent_timestamp |-> now,
   status |-> "sent"]

\* sentRecords = await loadJsonFile(SENT_RECORDS_FILE); push(sentRecord)
SendLoadSent(h, ok) ==
  /\ clinic.pc[h] = "send_loadS"
  /\ LET l == clinic.loc[h]
         patient == l.patients[FindPatient(l.patients, l.patientId)]
         rec == sentRecordOf(patient, l.targetFacilityId, clinic.sends)
     IN  clinic' = [clinic EXCEPT
                      !.pc[h] = "send_saveS",
                      !.loc[h].sentRecord = <<rec>>,
                      !.loc[h].sentRecords =
                        Append(clinicLoadJsonFile(clinic.sentFile, ok), rec)]
  /\ HospitalUnchanged

\* await saveJsonFile(SENT_RECORDS_FILE, sentRecords); res.json({success})
SendSaveSent(h, ok) ==
  /\ clinic.pc[h] = "send_saveS"
  /\ LET l == clinic.loc[h]
     IN  clinic' =
           [ClinicRespond(h, [NoClinicResponse EXCEPT
                                !.op = "send", !.code = 200,
                                !.call = l.call,
                                !.patientId = l.patientId,
                                !.saves = 2,
                                !.sentRecord = l.sentRecord,
                                !.patients = l.patients,
                                !.sentRecords = l.sentRecords])
              EXCEPT
                !.sentFile =
                  clinicSaveJsonFile(clinic.sentFile, l.sentRecords, ok),
                !.sentOk = Append(clinic.sentOk, l.patientId)]
  /\ HospitalUnchanged

ClinicIdle == \A h \in ClinicHandlers : clinic.pc[h] = "idle"

ClinicStep(h, serial, outcomes) ==
  \/ (serial => ClinicIdle) /\ \E body \in ClinicBodies : AddStart(h, body)
  \/ \E ok \in outcomes : AddLoad(h, ok)
  \/ \E ok \in outcomes : AddSave(h, ok)
  \/ (serial => ClinicIdle)
       /\ \E patientId \in SendPatientIds, facility \in SendFacilityIds :
            SendStart(h, patientId, facility)
  \/ \E ok \in outcomes : SendLoadPatients(h, ok)
  \/ \E ok \in outcomes : SendLoadFacilities(h, ok)
  \/ \E outcome \in CallOutcomes : SendCall(h, outcome)
  \/ \E ok \in outcomes : SendSavePatients(h, ok)
  \/ \E ok \in outcomes : SendLoadSent(h, ok)
  \/ \E ok \in outcomes : SendSaveSent(h, ok)

\* The clinic server with overlapping requests on working files.
NextClinic == \E h \in ClinicHandlers : ClinicStep(h, FALSE, {TRUE})

SpecClinic == Init /\ [][NextClinic]_vars

\* The clinic server with one request at a time on working files.
NextClinicSerial == \E h \in ClinicHandlers : ClinicStep(h, TRUE, {TRUE})

SpecClinicSerial == Init /\ [][NextClinicSerial]_vars

\* The clinic server with one request at a time on files whose reads and
\* writes can fail.
NextClinicFaulty == \E h \in ClinicHandlers : ClinicStep(h, TRUE, BOOLEAN)

SpecClinicFaulty == Init /\ [][NextClinicFaulty]_vars

(* --------------------------- specifications ---------------------------- *)
\* One step of handler p.  serial: a request starts only when no other is
\* in flight.  outcomes: the results a file access may have (TRUE: it
\* succeeds).  bodies: the request bodies received.  queries: the search
\* terms asked.
Step(p, serial, outcomes, bodies, queries) ==
  \/ (serial => AllIdle) /\ \E d \in bodies : StartEnqueue(p, d)
  \/ \E ok \in outcomes : EnqueueLoad(p, ok)
  \/ \E ok \in outcomes : EnqueueSave(p, ok)
  \/ (serial => AllIdle) /\ StartCommit(p)
  \/ \E ok \in outcomes : CommitLoadPending(p, ok)
  \/ \E ok \in outcomes : CommitLoadReceived(p, ok)
  \/ \E ok \in outcomes : CommitSaveReceived(p, ok)
  \/ \E ok \in outcomes : CommitSavePending(p, ok)
  \/ (serial => AllIdle) /\ \E ok \in outcomes : ListCommitted(p, ok)
  \/ (serial => AllIdle) /\ \E ok \in outcomes : ListPending(p, ok)
  \/ (serial => AllIdle) /\ \E ok \in outcomes, q \in queries : Search(p, q, ok)

\* Handlers interleave at their awaits; every file access may fail.
Next == \E p \in Procs : Step(p, FALSE, BOOLEAN, OverlapPayloads, SampleQueries)

Spec == Init /\ [][Next]_vars

\* Handlers interleave at their awaits; the store works.
NextOverlap == \E p \in Procs : Step(p, FALSE, {TRUE}, OverlapPayloads, SampleQueries)

SpecOverlap == Init /\ [][NextOverlap]_vars

\* One request at a time; every file access may fail.
NextFaulty == \E p \in Procs : Step(p, TRUE, BOOLEAN, SamplePayloads, SampleQueries)

SpecFaulty == Init /\ [][NextFaulty]_vars

\* One request at a time, on a store whose reads and writes all succeed.
NextSerial == \E p \in Procs : Step(p, TRUE, {TRUE}, SamplePayloads, SampleQueries)

SpecSerial == Init /\ [][NextSerial]_vars

\* A single receipt of any body, on a working store.
NextExtract ==
  \E p \in Procs : (clock = 0 \/ ~AllIdle) /\ Step(p, TRUE, {TRUE}, Payloads, SampleQueries)

SpecExtract == Init /\ [][NextExtract]_vars

\* The translation service, one request after the other.
NextTranslate ==
  \/ \E data \in Hl7Payloads : TranslateReceive(data, FALSE)
  \/ \E outcome \in DecisionOutcomes : TranslateDecide(outcome)
  \/ TranslateResolve
  \/ TranslateExecute
  \/ \E strict \in BOOLEAN : TranslateValidate(strict)
  \/ TranslateRespond

SpecTranslate == Init /\ [][NextTranslate]_vars

\* The translation service when the event loop goes on running: the
\* decision call ends (reply, failure or timeout) and every later step,
\* which does not wait, is taken.
SpecTranslateLive ==
  /\ SpecTranslate
  /\ WF_vars(\E outcome \in DecisionOutcomes : TranslateDecide(outcome))
  /\ WF_vars(TranslateResolve)
  /\ WF_vars(TranslateExecute)
  /\ WF_vars(\E strict \in BOOLEAN : TranslateValidate(strict))
  /\ WF_vars(TranslateRespond)

\* Two translation requests one after the other, the first one remembered.
NextRepeat ==
  \/ \E data \in RepeatPayloads : TranslateReceive(data, TRUE)
  \/ \E outcome \in DecisionReplies : TranslateDecide(outcome)
  \/ TranslateResolve
  \/ TranslateExecute
  \/ \E strict \in BOOLEAN : TranslateValidate(strict)
  \/ TranslateRespond

SpecRepeat == Init /\ [][NextRepeat]_vars

\* The validator called on its own with every input.
NextValidate ==
  \E fhir_data \in ValidatorInputs, strict \in BOOLEAN :
    CallValidate(fhir_data, strict)

SpecValidate == Init /\ [][NextValidate]_vars

\* One request at a time on a working store, with every search term.
NextSearch ==
  \E p \in Procs : Step(p, TRUE, {TRUE}, SearchPayloads, SearchQueries)

SpecSearch == Init /\ [][NextSearch]_vars

(* ------------------------------ claims --------------------------------- *)
\* The receipt timestamps of the records of a store.
Stamps(store) == { store[i].received_timestamp : i \in DOMAIN store }

Records(store) == { store[i] : i \in DOMAIN store }

IsPrefix(s, t) == Len(s) <= Len(t) /\ SubSeq(t, 1, Len(s)) = s

\* The completed commits and receipts still in the log.
Commits == { i \in DOMAIN hist : hist[i].op = "commit" }
Receipts == { i \in DOMAIN hist : hist[i].op = "enqueue" }

\* C1: once no request is in flight, every record whose receipt was
\* acknowledged with success is in the pending store or in the committed
\* store, for any interleaving of receipts and commits on a working store.
C1_AckedRecordNeverLost ==
  AllIdle =>
    \A t \in acked : t \in Stamps(pendingFile) \cup Stamps(receivedFile)

\* C2: for any interleaving of receipts and commits, overlapping commits
\* included, no record is in the committed store twice.
C2_CommittedAtMostOnce ==
  \A i, j \in DOMAIN receivedFile :
    i # j =>
      receivedFile[i].received_timestamp # receivedFile[j].received_timestamp

\* C3: a commit that has ended, whatever the outcomes of its reads and
\* writes, either moved every record that was pending at the call into the
\* committed store and out of the pending store, or left both stores as
\* they were before the call.
C3_CommitAllOrNone ==
  \A i \in Commits :
    \/ \A r \in Records(hist[i].prePending) :
         /\ r \in Records(hist[i].postReceived)
         /\ r \notin Records(hist[i].postPending)
    \/ /\ hist[i].postPending = hist[i].prePending
       /\ hist[i].postReceived = hist[i].preReceived

\* C4: in every state, the states between the two writes of a commit
\* included, no record is in both the pending and the committed store.
C4_StoresDisjoint == Stamps(pendingFile) \cap Stamps(receivedFile) = {}

\* C5: the committed store only grows at its end: every step, whatever the
\* outcome of the store reads, keeps the committed records, unchanged and
\* in their order, as a prefix of the new committed store.
C5_CommittedAppendOnly == [][IsPrefix(receivedFile, receivedFile')]_vars

\* C6: a receipt is acknowledged with success (200) only if its record was
\* added to the pending store.
C6_AckOnlyIfStored ==
  \A i \in Receipts :
    hist[i].code = 200 => hist[i].rec[1] \in Records(hist[i].postPending)

\* C7: of two commits in succession with no receipt between them, on a
\* working store, the second reports zero records moved and leaves the
\* committed store as the first left it.
C7_CommitIdempotent ==
  (Len(hist) = 2 /\ hist[1].op = "commit" /\ hist[2].op = "commit") =>
    /\ hist[2].count = 0
    /\ hist[2].postReceived = hist[1].postReceived
    /\ (AllIdle => receivedFile = hist[1].postReceived)

\* C7 witness: a commit that moved a record, followed by a second commit.
C7_Witness ==
  /\ Len(hist) = 2
  /\ hist[1].op = "commit" /\ hist[1].count > 0
  /\ hist[2].op = "commit"
  /\ AllIdle

\* C8: run without interleaving on a working store, a commit called with
\* pending store P (in receipt order) and committed store C leaves the
\* committed store equal to C followed by P, the pending store empty, and
\* reports Len(P) records.
C8_CommitMovesBatch ==
  \A i \in Commits :
    /\ hist[i].postReceived = hist[i].preReceived \o hist[i].prePending
    /\ hist[i].postPending = <<>>
    /\ hist[i].count = Len(hist[i].prePending)
    /\ \A j, k \in DOMAIN hist[i].prePending :
         j < k => hist[i].prePending[j].received_timestamp
                    < hist[i].prePending[k].received_timestamp

\* C8 witness: a commit of a pending record onto a non-empty committed store.
C8_Witness ==
  \E i \in Commits :
    /\ Len(hist[i].prePending) > 0
    /\ Len(hist[i].preReceived) > 0
    /\ hist[i].postReceived # hist[i].prePending \o hist[i].preReceived

\* C9: every record in the pending store has status pending and every
\* record in the committed store has status committed.
C9_StatusFollowsStore ==
  /\ \A r \in Records(pendingFile) : r.status = "pending"
  /\ \A r \in Records(receivedFile) : r.status = "committed"

\* What a request body lacks (stated on the body, not on the extraction).
FirstEntryNull(list) ==
  list.present /\ Len(list.items) > 0 /\ list.items[1].null

NoFirstEntry(list) == ~list.present \/ Len(list.items) = 0

Blank(v) == v \in {Undefined, ""}

IdLacking(d) ==
  \/ NoFirstEntry(d.identifier)
  \/ FirstEntryNull(d.identifier)
  \/ Blank(d.identifier.items[1].value)

FamilyLacking(d) ==
  \/ NoFirstEntry(d.name)
  \/ FirstEntryNull(d.name)
  \/ Blank(d.name.items[1].family)

GivenLacking(d) ==
  \/ NoFirstEntry(d.name)
  \/ FirstEntryNull(d.name)
  \/ NoFirstEntry(d.name.items[1].given)
  \/ Blank(d.name.items[1].given.items[1])

\* The receipt succeeded and its record holds the body as received.
ReceiptKept(h) ==
  /\ h.code = 200
  /\ h.rec[1] \in Records(h.postPending)
  /\ h.rec[1].details.original_fhir = h.body[1]

\* Every display field the body lacks is the sentinel "Unknown".
LackingAreUnknown(d, r) ==
  /\ IdLacking(d) => r.patient_id = "Unknown"
  /\ FamilyLacking(d) => r.family_name = "Unknown"
  /\ GivenLacking(d) => r.given_name = "Unknown"
  /\ Blank(d.birthDate) => r.birth_date = "Unknown"
  /\ Blank(d.gender) => r.gender = "Unknown"

\* C10 as claimed: whatever is missing or empty in the body (identifier
\* list, identifier value, name list, name entry, family, given, birth date,
\* gender), the receipt succeeds, each display field that could not be
\* extracted is "Unknown", and the raw body is kept in the record.
C10_LackingFieldsUnknown ==
  \A i \in Receipts :
    /\ ReceiptKept(hist[i])
    /\ LackingAreUnknown(hist[i].body[1], hist[i].rec[1].details)

\* C10 as amended: the same, unless the first identifier entry or the first
\* name entry is null; then the identifier and both names are "Error" and
\* birth date and gender are "Unknown".
C10_LackingFieldsUnknownOrError ==
  \A i \in Receipts :
    LET d == hist[i].body[1]
        r == hist[i].rec[1].details
    IN  /\ ReceiptKept(hist[i])
        /\ IF FirstEntryNull(d.identifier) \/ FirstEntryNull(d.name)
           THEN /\ r.patient_id = "Error"
                /\ r.given_name = "Error"
                /\ r.family_name = "Error"
                /\ r.birth_date = "Unknown"
                /\ r.gender = "Unknown"
           ELSE LackingAreUnknown(d, r)

\* C10 witness: a received body with a null name entry next to a filled
\* identifier and birth date, and one with an empty family name.
C10_Witness ==
  \E i \in Receipts :
    LET d == hist[i].body[1]
    IN  /\ FirstEntryNull(d.name)
        /\ ~IdLacking(d)
        /\ ~Blank(d.birthDate)
        /\ hist[i].rec[1].details.patient_id = "Error"

\* Case-insensitive containment, stated character by character.
SameLetter(a, b) ==
  \/ a = b
  \/ \E j \in 1..Len(UpperChars) :
       {a, b} = {SubSeq(UpperChars, j, j), SubSeq(LowerChars, j, j)}

ContainsIgnoringCase(text, term) ==
  \E i \in 1..(Len(text) + 1) :
    /\ i + Len(term) <= Len(text) + 1
    /\ \A k \in 1..Len(term) :
         SameLetter(SubSeq(text, i + k - 1, i + k - 1), SubSeq(term, k, k))

\* The identifier as text: a number reads as its digits.
IdText(v) == IF v = NumberValue THEN "123" ELSE v

\* The records of a store that a term selects, in store order.
Selected(store, term) ==
  SelectSeq(store,
    LAMBDA r : \/ ContainsIgnoringCase(IdText(r.details.patient_id), term)
               \/ ContainsIgnoringCase(r.details.full_name, term))

\* C11: for every content of the committed store and every non-empty term,
\* the search answers with exactly the committed records whose identifier
\* or full name contains the term, case-insensitively and in store order;
\* so it returns no record that is only pending.
C11_SearchReturnsMatches ==
  (resp.op = "search" /\ resp.query # "") =>
    /\ resp.code = 200
    /\ resp.list = Selected(resp.committed, resp.query)
    /\ Records(resp.list) \subseteq Records(resp.committed)

\* The receipt of the example resource on empty stores.
ExampleOnEmpty(h) ==
  /\ h.op = "enqueue"
  /\ h.body = <<JuanPayload>>
  /\ h.prePending = <<>>
  /\ h.preReceived = <<>>

SearchedExample == resp.op = "search" /\ resp.query = "Dela Cruz"

\* C12: from empty stores, the example resource is received; a search for
\* "Dela Cruz" before the commit returns nothing; the commit moves exactly
\* that one record from pending to committed; a search for "Dela Cruz"
\* after the commit returns that record.
C12_IngestCommitSearch ==
  /\ (Len(hist) >= 1 /\ ExampleOnEmpty(hist[Len(hist)]) /\ SearchedExample)
       => resp.list = <<>>
  /\ (Len(hist) = 2 /\ ExampleOnEmpty(hist[1]) /\ hist[2].op = "commit")
       => /\ hist[2].count = 1
          /\ hist[2].postReceived = hist[1].rec
          /\ hist[2].postPending = <<>>
          /\ SearchedExample => resp.list = hist[1].rec

\* C12 witness: the example was received on empty stores and committed, and
\* the search after the commit has answered with one record.
C12_Witness ==
  /\ Len(hist) = 2
  /\ ExampleOnEmpty(hist[1])
  /\ hist[2].op = "commit"
  /\ SearchedExample
  /\ Len(resp.list) = 1

(* ------------------------- translation service ------------------------- *)
\* The steps the request has gone through.
Ran(step) == \E i \in DOMAIN tr.calls : tr.calls[i] = step

Finished == tr.pc = "done"

NamedUnknown ==
  /\ tr.tool_name # <<>>
  /\ tr.tool_name[1] \notin AVAILABLE_TOOLS

\* C13: when the decision names a capability that is not in the registry,
\* the request goes no further than the lookup: no routine is executed,
\* the validator is not called, no translated data exists, and the answer
\* is the bad-request error "Unknown tool requested by AI".
C13_UnknownCapabilityHalts ==
  NamedUnknown =>
    /\ tr.pc \in {"resolving", "done"}
    /\ ~Ran("execute")
    /\ ~Ran("validate")
    /\ tr.translated_data = <<>>
    /\ Finished =>
         /\ tr.response[1].status_code = 400
         /\ tr.response[1].status = "error"
         /\ tr.response[1].detail = "Unknown tool requested by AI"
         /\ tr.response[1].translated_data = <<>>

\* C13 witness: a request whose decision named the unregistered
\* convert_cda_to_fhir has been answered.
C13_Witness ==
  /\ NamedUnknown
  /\ tr.tool_name[1] = "convert_cda_to_fhir"
  /\ Finished
  /\ tr.calls = <<"decide", "resolve">>

\* The ways the decision call fails: the network, the timeout, a
\* non-success status, a reply without the tool call.
FailedDecisionKinds ==
  {"network", "timeout", "status", "no_tool_calls", "empty_tool_calls",
   "no_function_name"}

DecisionFailed ==
  /\ tr.ai_response # <<>>
  /\ tr.ai_response[1].kind \in FailedDecisionKinds

\* C14: whichever way the decision call fails, the request ends at once
\* with the same error (500, "AI service error"); no tool name is taken as
\* a default, no routine is executed and nothing is validated.
C14_DecisionUnavailable ==
  DecisionFailed =>
    /\ Finished
    /\ tr.calls = <<"decide">>
    /\ tr.tool_name = <<>>
    /\ tr.translated_data = <<>>
    /\ tr.response[1].status_code = 500
    /\ tr.response[1].status = "error"
    /\ tr.response[1].detail = "AI service error"
    /\ tr.response[1].translated_data = <<>>

\* C14 witness: a reply without the tool call has been answered.
C14_Witness ==
  /\ DecisionFailed
  /\ tr.ai_response[1].kind = "no_tool_calls"
  /\ Finished

\* A string of exactly 8 digits.
EightDigits(v) == PyIsStr(v) /\ Len(v) = 8 /\ IsDigits(v)

\* Characters 1-4, 5-6 and 7-8 joined by hyphens.
Hyphenated(d) ==
  SubSeq(d, 1, 4) \o "-" \o SubSeq(d, 5, 6) \o "-" \o SubSeq(d, 7, 8)

Executed == Ran("execute")

\* C15: for a payload whose dateOfBirth is a string of exactly 8 digits
\* YYYYMMDD, the routine returns a result whose birthDate is YYYY-MM-DD;
\* the clinic's formatDateOfBirth gives the same text.
C15_EightDigitDate ==
  (Executed /\ EightDigits(tr.data[1].dateOfBirth)) =>
    /\ tr.translated_data # <<>>
    /\ tr.translated_data[1].birthDate = Hyphenated(tr.data[1].dateOfBirth)
    /\ IsFhirDate(tr.translated_data[1].birthDate)
    /\ formatDateOfBirth(tr.data[1].dateOfBirth)
         = Hyphenated(tr.data[1].dateOfBirth)
    /\ tr.data[1].dateOfBirth = "19800101"
         => tr.translated_data[1].birthDate = "1980-01-01"

\* C15 witness: the routine has turned 20251231 into 2025-12-31.
C15_Witness ==
  /\ Executed
  /\ tr.data[1].dateOfBirth = "20251231"
  /\ tr.translated_data # <<>>
  /\ tr.translated_data[1].birthDate = "2025-12-31"

\* The request was refused as malformed source data.
RefusedAsMalformed ==
  /\ tr.translated_data = <<>>
  /\ ~Ran("validate")
  /\ Finished
  /\ tr.response[1].status_code = 400
  /\ tr.response[1].detail = "Translation error"

\* C16: for a payload whose dateOfBirth is not a string of exactly 8
\* digits, the routine fails as malformed source data (bad request) and
\* returns no result, so none with a truncated or malformed date.
C16_OtherDateRefused ==
  (Executed /\ ~EightDigits(tr.data[1].dateOfBirth)) => RefusedAsMalformed

SourceFields == {"patientId", "lastName", "firstName", "dateOfBirth"}

\* C17: when patientId, lastName, firstName or dateOfBirth is missing from
\* the payload, the routine fails as malformed source data naming that
\* field: bad request, no result produced and nothing validated.
C17_MissingFieldRefused ==
  \A f \in SourceFields :
    (Executed /\ tr.data[1][f] = Missing) =>
      /\ RefusedAsMalformed
      /\ tr.response[1].field \in SourceFields
      /\ tr.data[1][tr.response[1].field] = Missing

(* ------------------------------ validator ------------------------------ *)
Called == tr.pc = "called"

Accepted == tr.is_valid[1] = [raised |-> "none", value |-> TRUE]

Rejected == tr.is_valid[1] = [raised |-> "none", value |-> FALSE]

HasNameBlock(r) ==
  /\ r.dict
  /\ r.name.present
  /\ Len(r.name.items) >= 1
  /\ ~r.name.items[1].null

\* The family name of the first name block is absent, null or empty.
FamilyAbsentOrEmpty(r) ==
  /\ HasNameBlock(r)
  /\ r.name.items[1].family \in {Missing, None, ""}

\* C18: the validator rejects every result whose first name block has a
\* family name that is absent, null or the empty string, whatever the
\* other fields are.
C18_EmptyFamilyRejected ==
  (Called /\ FamilyAbsentOrEmpty(tr.translated_data[1])) => Rejected

\* The minimum contract: the Patient tag, at least one identity block, and
\* a first name block with a non-empty family name.
MinimumContract(r) ==
  /\ r.dict
  /\ r.resourceType = "Patient"
  /\ r.identifier.present
  /\ Len(r.identifier.items) >= 1
  /\ HasNameBlock(r)
  /\ ~FamilyAbsentOrEmpty(r)

\* C19: the validator accepts a result only if the minimum contract holds;
\* a result without any identity block is rejected.
C19_AcceptedMeetsContract ==
  (Called /\ Accepted) => MinimumContract(tr.translated_data[1])

\* The traversal of the result cannot get to a family name.
TraversalFails(r) == ~HasNameBlock(r)

\* C20: for every input the validator returns accept or reject and raises
\* nothing; an input that is no record, has no name list, an empty name
\* list or a null first name block is rejected.
C20_ValidateTotal ==
  Called =>
    /\ Accepted \/ Rejected
    /\ TraversalFails(tr.translated_data[1]) => Rejected

\* C20 witness: the validator was called with a value that is no record,
\* with a record without a name list and with one whose name list is
\* empty, and answered reject.
C20_Witness ==
  /\ Called
  /\ Rejected
  /\ \/ tr.translated_data[1] = NotADict
     \/ /\ tr.translated_data[1].dict
        /\ tr.translated_data[1].resourceType = "Patient"
        /\ ~tr.translated_data[1].name.present
     \/ /\ tr.translated_data[1].dict
        /\ tr.translated_data[1].resourceType = "Patient"
        /\ tr.translated_data[1].name = ListOf(<<>>)

(* ------------------------------ end to end ----------------------------- *)
ExampleRequest ==
  /\ tr.data = <<[patientId |-> "C123", firstName |-> "Juan",
                  lastName |-> "Dela Cruz", dateOfBirth |-> "19800101"]>>
  /\ tr.tool_name = <<"convert_hl7_to_fhir">>

ExampleResult(r) ==
  /\ r.resourceType = "Patient"
  /\ Len(r.identifier.items) = 1
  /\ r.identifier.items[1].value = "C123"
  /\ Len(r.name.items) = 1
  /\ r.name.items[1].family = "Dela Cruz"
  /\ r.name.items[1].given = <<"Juan">>
  /\ r.birthDate = "1980-01-01"

\* C21: with the decision naming convert_hl7_to_fhir, the example input
\* (C123, Juan, Dela Cruz, 19800101) is translated to identity value C123,
\* family Dela Cruz, given [Juan], birthDate 1980-01-01; the validator
\* accepts it and the request answers success with it as translated_data.
C21_ExampleEndToEnd ==
  ExampleRequest =>
    /\ Executed =>
         /\ tr.translated_data # <<>>
         /\ ExampleResult(tr.translated_data[1])
    /\ Ran("validate") => Accepted
    /\ Finished =>
         /\ tr.response[1].status_code = 200
         /\ tr.response[1].status = "success"
         /\ tr.response[1].translated_data = tr.translated_data

\* C21 witness: the example request has been answered with success.
C21_Witness ==
  /\ ExampleRequest
  /\ Finished
  /\ tr.calls = <<"decide", "resolve", "execute", "validate", "respond">>
  /\ tr.response[1].status = "success"
  /\ ExampleResult(tr.response[1].translated_data[1])

(* ----------------------------- serialization --------------------------- *)
\* A commit that has read the pending store and has not yet cleared it.
CommitInProgress(p) == pc[p] \in {"com_loadR", "com_saveR", "com_saveP"}

\* The request of q reads or writes the pending store in this step.
TouchesPending(q) ==
  /\ pc[q] \in {"enq_load", "enq_save", "com_loadP", "com_saveP"}
  /\ pc'[q] # pc[q]

\* C22: commits and receipts are serialized: while a commit is between its
\* read of the pending store and its clearing of it, no other commit and
\* no enqueue reads or writes the pending store.
C22_CommitExcludesOthers ==
  [][\A p, q \in Procs :
       (p # q /\ CommitInProgress(p)) => ~TouchesPending(q)]_vars

(* ------------------------- decision arguments -------------------------- *)
\* Two answered requests with the same payload and the same capability
\* name, on the same resource library.
SameRequestTwice ==
  /\ Finished
  /\ tr.prev # <<>>
  /\ tr.prev[1].data = tr.data
  /\ tr.prev[1].tool_name = tr.tool_name
  /\ tr.tool_name # <<>>
  /\ \/ tr.strict = <<>>
     \/ tr.prev[1].strict = <<>>
     \/ tr.prev[1].strict = tr.strict

\* C23: the outcome does not depend on the arguments of the decision: for
\* the same payload, two decisions naming the same capability give the
\* same result or the same error, whatever arguments they carry.
C23_ArgumentsIgnored ==
  SameRequestTwice =>
    /\ tr.prev[1].translated_data = tr.translated_data
    /\ tr.prev[1].response = tr.response

\* C23 witness: the example payload was translated twice by the routine,
\* once with missing arguments and once with garbled ones.
C23_Witness ==
  /\ SameRequestTwice
  /\ tr.tool_name = <<"convert_hl7_to_fhir">>
  /\ tr.data[1].dateOfBirth = "19800101"
  /\ tr.prev[1].arguments = <<Missing>>
  /\ tr.arguments = <<"garbled">>
  /\ tr.response[1].status = "success"

(* ------------------------------ step order ----------------------------- *)
StepOrder == <<"decide", "resolve", "execute", "validate", "respond">>

SuccessSent ==
  /\ tr.response # <<>>
  /\ tr.response[1].status = "success"

\* C24: the steps of a request go in the order decide, resolve, execute,
\* validate, respond; the validator is called only on a result that the
\* routine returned; success with translated_data is sent only after the
\* validator accepted that same result; a rejected result ends the request
\* with an error, is not returned, and no routine is run again.
C24_StepsInOrder ==
  /\ IsPrefix(tr.calls, StepOrder)
  /\ Ran("validate") =>
       /\ tr.translated_data # <<>>
       /\ tr.is_valid # <<>>
  /\ SuccessSent =>
       /\ Ran("validate")
       /\ Accepted
       /\ tr.response[1].translated_data = tr.translated_data
  /\ (Ran("validate") /\ Rejected) =>
       /\ Finished
       /\ ~Ran("respond")
       /\ tr.response[1].status = "error"
       /\ tr.response[1].translated_data = <<>>

\* C24 witness: a result was rejected by the validator and the request was
\* answered with the validation error.
C24_Witness ==
  /\ tr.calls = <<"decide", "resolve", "execute", "validate">>
  /\ Rejected
  /\ Finished
  /\ tr.response[1].detail = "Validation Failed"

(* ------------------------------ termination ---------------------------- *)
Answer == tr.pc = "done" /\ tr.response # <<>>

\* C25: every translation request eventually ends with a response, success
\* or error.
C25_RequestEnds == (tr.pc = "deciding") ~> Answer

\* C25 witness: a request whose decision call ran into the timeout has
\* been answered.
C25_Witness ==
  /\ Answer
  /\ tr.ai_response # <<>>
  /\ tr.ai_response[1].kind = "timeout"

(* ------------------------------ conservation --------------------------- *)
\* C26: with one request at a time on a working store, after any sequence
\* of receipts and commits the pending records together with the committed
\* records are exactly the records received so far, each in exactly one of
\* the two stores and exactly once.
C26_RecordsConserved ==
  AllIdle =>
    /\ Stamps(pendingFile \o receivedFile) = acked
    /\ Len(pendingFile \o receivedFile) = Cardinality(acked)
    /\ Cardinality(acked) = clock
    /\ Stamps(pendingFile) \cap Stamps(receivedFile) = {}
    /\ \A i \in Receipts :
         hist[i].rec[1] \in Records(pendingFile \o receivedFile)

\* C26 witness: two records were received, one is committed and the other
\* is pending.
C26_Witness ==
  /\ AllIdle
  /\ clock = 2
  /\ Len(receivedFile) = 1
  /\ Len(pendingFile) = 1

(* ------------------------------- frame --------------------------------- *)
\* C27: a receipt changes only the pending store and only by appending:
\* the committed store is unchanged and every record already pending stays
\* pending, unchanged and in the same order, with the new record after
\* them, also when the read of the pending store fails.
C27_EnqueueOnlyAppends ==
  \A i \in Receipts :
    /\ hist[i].postReceived = hist[i].preReceived
    /\ IsPrefix(hist[i].prePending, hist[i].postPending)
    /\ Records(hist[i].postPending)
         \subseteq Records(hist[i].prePending) \cup {hist[i].rec[1]}
    /\ hist[i].rec[1] \in Records(hist[i].postPending)
         => hist[i].postPending[Len(hist[i].postPending)] = hist[i].rec[1]

(* ---------------------------- clinic server ---------------------------- *)
SendAnswered == clinic.resp.op = "send" /\ clinic.resp.call # ""

\* A 2xx reply whose status field is not success (or is not there).
RepliedWithoutSuccess == {"error_status", "no_body"}

\* The patient of a roster with this id is marked as sent.
MarkedSent(patients, patientId) ==
  \E i \in DOMAIN patients :
    /\ patients[i].patientId = patientId
    /\ patients[i].sent_to_hospital

\* The handler ends a send-record whose call threw.
EndsThrownSend(h) ==
  /\ clinic.pc[h] = "send_saveS"
  /\ clinic.loc[h].call \in CallThrows
  /\ clinic'.pc[h] = "idle"

\* The handler answers right after the call.
AnswersAfterCall(h) ==
  /\ clinic.pc[h] = "send_call"
  /\ clinic'.pc[h] = "idle"

\* C28: in send-record, a call to the interoperability service that throws
\* (unreachable, timeout, non-2xx) is treated as a success: the patient is
\* marked sent_to_hospital, a sent record with status sent is appended and
\* the caller gets success; the error answer, with no change of the files,
\* is given only for a 2xx reply whose status is not success.
C28_ThrowTreatedAsSuccess ==
  /\ [](SendAnswered =>
         /\ clinic.resp.call \in CallThrows => clinic.resp.code = 200
         /\ clinic.resp.code \in {200, 500}
         /\ clinic.resp.code = 500 <=>
              clinic.resp.call \in RepliedWithoutSuccess
         /\ clinic.resp.code = 500 => clinic.resp.saves = 0)
  /\ [][\A h \in ClinicHandlers :
          /\ EndsThrownSend(h) =>
               /\ clinic'.resp.code = 200
               /\ MarkedSent(clinic'.patientsFile, clinic.loc[h].patientId)
               /\ Len(clinic'.sentFile) = Len(clinic.sentFile) + 1
               /\ IsPrefix(clinic.sentFile, clinic'.sentFile)
               /\ clinic'.sentFile[Len(clinic'.sentFile)].status = "sent"
               /\ clinic'.sentFile[Len(clinic'.sentFile)].patientId
                    = clinic.loc[h].patientId
          /\ AnswersAfterCall(h) =>
               /\ clinic'.resp.code = 500
               /\ clinic'.patientsFile = clinic.patientsFile
               /\ clinic'.sentFile = clinic.sentFile]_vars

\* C28 witness: a send-record whose call ran into the timeout was answered
\* with success and its sent record is in the file.
C28_Witness ==
  /\ SendAnswered
  /\ clinic.resp.call = "timeout"
  /\ clinic.resp.code = 200
  /\ clinic.resp.sentRecord # <<>>
  /\ clinic.sentFile # <<>>
  /\ clinic.sentFile[Len(clinic.sentFile)] = clinic.resp.sentRecord[1]
  /\ MarkedSent(clinic.patientsFile, clinic.resp.patientId)

\* The ids of a roster are pairwise distinct.
DistinctIds(patients) ==
  \A i, k \in DOMAIN patients :
    patients[i].patientId = patients[k].patientId => i = k

\* The patient that was answered with 201 is in the roster.
InRoster(patient, patients) ==
  \E i \in DOMAIN patients :
    /\ patients[i].patientId = patient.patientId
    /\ patients[i].firstName = patient.firstName
    /\ patients[i].lastName = patient.lastName

\* C followed by the number in three digits, for a number below ten.
ExpectedId(n) == "C00" \o SubSeq("123456789", n, n)

\* C29: after any sequence of POST /api/patients requests, overlapping or
\* not, the ids of the roster are pairwise distinct, every patient that
\* was answered with 201 is in the roster, and each new id was C followed
\* by the largest existing number plus one in three digits (so the n-th
\* patient of the roster has the number n).
C29_RosterIdsDistinct ==
  ClinicIdle =>
    /\ DistinctIds(clinic.patientsFile)
    /\ \A i \in DOMAIN clinic.created :
         InRoster(clinic.created[i], clinic.patientsFile)
    /\ \A i \in DOMAIN clinic.patientsFile :
         clinic.patientsFile[i].patientId = ExpectedId(i)
    /\ DistinctIds(clinic.created)

\* The number of entries of a list that are about this patient.
CountOf(list, patientId, idOf(_)) ==
  Cardinality({ i \in DOMAIN list : idOf(list[i]) = patientId })

SentIdOf(sentRecord) == sentRecord.patientId

SameId(patientId) == patientId

\* C30: send-record does not look at sent_to_hospital, so every successful
\* send-record call for a patient appends one more sent record, and the
\* number of sent records of a patient equals the number of successful
\* send-record calls for that patient.
C30_SentRecordPerSend ==
  ClinicIdle =>
    \A id \in SendPatientIds :
      CountOf(clinic.sentFile, id, SentIdOf)
        = CountOf(clinic.sentOk, id, SameId)

====
